---- MODULE Spec2Model ----
(***************************************************************************)
(* Model of video_core/vulkan_common/vulkan_memory_allocator.cpp:          *)
(* MemoryAllocation (a block of device memory with its sorted commit       *)
(* ranges), MemoryCommit (the handle of one range) and MemoryAllocator     *)
(* (the list of blocks, the memory-type table and the grow-on-miss         *)
(* protocol).  Bit masks are modelled as sets: a VkMemoryPropertyFlags     *)
(* value is the set of its property bits, a type mask is the set of the    *)
(* type indices whose bit is set, and "a & b" being non-zero is a          *)
(* non-empty intersection.                                                 *)
(***************************************************************************)
EXTENDS Integers, Sequences, FiniteSets, TLC

(***************************************************************************)
(* Bounds of the model.                                                    *)
(***************************************************************************)
MaxBlocks == 2
MaxCommits == 2
MaxBlockCommits == 3
MaxOver == 2

MaxHandles == 2

(***************************************************************************)
(* Program constants.                                                      *)
(***************************************************************************)
KiB == 1024
ChunkAlignment == 4194304

DEVICE_LOCAL == "DEVICE_LOCAL"
HOST_VISIBLE == "HOST_VISIBLE"
HOST_COHERENT == "HOST_COHERENT"
HOST_CACHED == "HOST_CACHED"

DeviceLocal == "DeviceLocal"
Upload == "Upload"
Download == "Download"
MemoryUsage == {DeviceLocal, Upload, Download}

\* std::nullopt of an optional<u64> / optional<u32>
nullopt == -1

VARIABLES
    properties,   \* MemoryAllocator::properties: type index -> propertyFlags
    allocations,  \* MemoryAllocator::allocations: sequence of MemoryAllocation
    handles,      \* the MemoryCommit objects held by the caller
    last,         \* the operation that produced this state
    fatal,        \* how the process ended, "none" while it runs:
                  \* "unreachable" (UNREACHABLE_MSG), "assert" (ASSERT_MSG)
                  \* or "value" (std::optional::value on an empty optional)
    chunk         \* inputs and results of AllocationChunkSize on its own

vars == <<properties, allocations, handles, last, fatal, chunk>>

(***************************************************************************)
(* Range and its overlap test.                                             *)
(***************************************************************************)
Range(begin, end) == [begin |-> begin, end |-> end]

\* the overlap test with the size of the request left out
ContainsPoint(r, iterator, size) == iterator < r.end /\ r.begin < iterator

Contains(r, iterator, size) == iterator < r.end /\ r.begin < iterator + size

(***************************************************************************)
(* Common::AlignUp / Common::AlignUpLog2 (common/alignment.h): round up    *)
(* to the next multiple of the alignment.                                  *)
(***************************************************************************)
Pow2(n) == 2 ^ n

AlignUp(value, size) == value + ((size - (value % size)) % size)

AlignUpLog2(value, align_log2) ==
    ((value + (Pow2(align_log2) - 1)) \div Pow2(align_log2)) * Pow2(align_log2)

\* std::countr_zero of a non-zero value
RECURSIVE countr_zero(_)
countr_zero(x) == IF x % 2 = 1 THEN 0 ELSE 1 + countr_zero(x \div 2)

(***************************************************************************)
(* AllocationChunkSize.                                                    *)
(***************************************************************************)
sizes == << 4096 * KiB, 5120 * KiB, 6144 * KiB, 7168 * KiB, 8192 * KiB,
            12800 * KiB, 16384 * KiB, 24576 * KiB, 32768 * KiB, 40960 * KiB,
            65536 * KiB, 98304 * KiB, 131072 * KiB >>

\* std::ranges::lower_bound: index of the first element >= value, or
\* Len + 1 for end()
RECURSIVE lower_bound(_, _, _)
lower_bound(seq, value, i) ==
    IF i > Len(seq) THEN i
    ELSE IF seq[i] >= value THEN i
    ELSE lower_bound(seq, value, i + 1)

\* the same search with the strict comparison of upper_bound
AllocationChunkSizeUpper(size) ==
    LET it == lower_bound(sizes, size + 1, 1)
    IN IF it # Len(sizes) + 1 THEN sizes[it] ELSE AlignUp(size, ChunkAlignment)

\* above the table the required size is returned without rounding
AllocationChunkSizeExact(size) ==
    LET it == lower_bound(sizes, size, 1)
    IN IF it # Len(sizes) + 1 THEN sizes[it] ELSE size

\* every request gets the smallest preset size
AllocationChunkSizeFirst(size) == sizes[1]

AllocationChunkSize(size) ==
    LET it == lower_bound(sizes, size, 1)
    IN IF it # Len(sizes) + 1 THEN sizes[it] ELSE AlignUp(size, ChunkAlignment)

(***************************************************************************)
(* MemoryUsagePropertyFlags.                                               *)
(***************************************************************************)
MemoryUsagePropertyFlagsCached(usage) ==
    CASE usage = DeviceLocal -> {DEVICE_LOCAL}
      [] usage = Upload -> {HOST_VISIBLE, HOST_COHERENT, HOST_CACHED}
      [] usage = Download -> {HOST_VISIBLE, HOST_COHERENT, HOST_CACHED}

MemoryUsagePropertyFlags(usage) ==
    CASE usage = DeviceLocal -> {DEVICE_LOCAL}
      [] usage = Upload -> {HOST_VISIBLE, HOST_COHERENT}
      [] usage = Download -> {HOST_VISIBLE, HOST_COHERENT, HOST_CACHED}

(***************************************************************************)
(* MemoryAllocation.                                                       *)
(***************************************************************************)
\* std::span<u8>: map names the mapping of the block the view lies in (the
\* n-th memory.Map call on the block), offset and size are in bytes
EmptySpan == [map |-> 0, offset |-> 0, size |-> 0]

empty(span) == span.size = 0

subspan(span, offset, count) ==
    [map |-> span.map, offset |-> span.offset + offset, size |-> count]

\* maps counts the memory.Map calls made on the allocation
MemoryAllocation(flags, allocation_size, type) ==
    [allocation_size |-> allocation_size,
     property_flags |-> flags,
     memory_type |-> type,
     commits |-> << >>,
     memory_mapped_span |-> EmptySpan,
     maps |-> 0]

IsCompatible(allocation, flags, type_mask) ==
    /\ (flags \cap allocation.property_flags) # {}
    /\ allocation.memory_type \in type_mask

\* the loop with the size left out of its condition
RECURSIVE FindFreeRegionLoopNoSize(_, _, _, _, _, _, _)
FindFreeRegionLoopNoSize(commits, allocation_size, size, alignment_log2, iterator, candidate, commit) ==
    IF iterator <= allocation_size
    THEN LET cand == IF candidate = nullopt THEN iterator ELSE candidate
         IN IF commit = Len(commits) + 1
            THEN cand
            ELSE FindFreeRegionLoopNoSize(
                     commits, allocation_size, size, alignment_log2,
                     AlignUpLog2(commits[commit].end, alignment_log2),
                     IF Contains(commits[commit], cand, size)
                     THEN nullopt ELSE cand,
                     commit + 1)
    ELSE candidate

\* the loop of FindFreeRegion: commit is the index of the iterator into
\* commits, Len + 1 being commits.end()
RECURSIVE FindFreeRegionLoop(_, _, _, _, _, _, _)
FindFreeRegionLoop(commits, allocation_size, size, alignment_log2, iterator, candidate, commit) ==
    IF iterator + size <= allocation_size
    THEN LET cand == IF candidate = nullopt THEN iterator ELSE candidate
         IN IF commit = Len(commits) + 1
            THEN cand
            ELSE FindFreeRegionLoop(
                     commits, allocation_size, size, alignment_log2,
                     AlignUpLog2(commits[commit].end, alignment_log2),
                     IF Contains(commits[commit], cand, size)
                     THEN nullopt ELSE cand,
                     commit + 1)
    ELSE candidate

\* no search: the region after the last range, or nothing
FindFreeRegionAppend(allocation, size, alignment) ==
    LET commits == allocation.commits
        start == IF commits = << >> THEN 0
                 ELSE AlignUpLog2(commits[Len(commits)].end,
                                  countr_zero(alignment))
    IN IF start + size <= allocation.allocation_size THEN start ELSE nullopt

\* the search with the alignment dropped
FindFreeRegionUnaligned(allocation, size, alignment) ==
    FindFreeRegionLoop(allocation.commits, allocation.allocation_size, size,
                       0, 0, nullopt, 1)

FindFreeRegion(allocation, size, alignment) ==
    FindFreeRegionLoop(allocation.commits, allocation.allocation_size, size,
                       countr_zero(alignment), 0, nullopt, 1)

\* the position of push_back instead of the sorted position
upper_boundEnd(commits, value, i) == Len(commits) + 1

\* std::ranges::upper_bound(commits, value, {}, &Range::begin): index of the
\* first range whose begin is greater than value, or Len + 1
RECURSIVE upper_bound(_, _, _)
upper_bound(commits, value, i) ==
    IF i > Len(commits) THEN i
    ELSE IF commits[i].begin > value THEN i
    ELSE upper_bound(commits, value, i + 1)

\* vector::insert before index pos
insert(seq, pos, elem) ==
    SubSeq(seq, 1, pos - 1) \o << elem >> \o SubSeq(seq, pos, Len(seq))

\* vector::erase of index pos
erase(seq, pos) == SubSeq(seq, 1, pos - 1) \o SubSeq(seq, pos + 1, Len(seq))

\* MemoryAllocation::Commit: the offset found (or nullopt) and the
\* allocation after the insertion
MemoryAllocation_Commit(allocation, size, alignment) ==
    LET alloc == FindFreeRegion(allocation, size, alignment)
    IN IF alloc = nullopt
       THEN [alloc |-> nullopt, allocation |-> allocation]
       ELSE [alloc |-> alloc,
             allocation |->
                 [allocation EXCEPT !.commits =
                     insert(@, upper_bound(@, alloc, 1),
                            Range(alloc, alloc + size))]]

\* std::ranges::find(commits, begin, &Range::begin)
RECURSIVE find(_, _, _)
find(commits, begin, i) ==
    IF i > Len(commits) THEN i
    ELSE IF commits[i].begin = begin THEN i
    ELSE find(commits, begin, i + 1)

\* a release that forgets to erase the range
\* a Free that erases the last range whatever begin is
FreeLast(allocation, begin) ==
    [ok |-> find(allocation.commits, begin, 1) # Len(allocation.commits) + 1,
     allocation |-> [allocation EXCEPT
                        !.commits = SubSeq(@, 1, Len(@) - 1)]]

FreeKeep(allocation, begin) == [ok |-> TRUE, allocation |-> allocation]

\* MemoryAllocation::Free: ok is the asserted condition it != commits.end()
Free(allocation, begin) ==
    LET it == find(allocation.commits, begin, 1)
    IN IF it = Len(allocation.commits) + 1
       THEN [ok |-> FALSE, allocation |-> allocation]
       ELSE [ok |-> TRUE,
             allocation |-> [allocation EXCEPT !.commits = erase(@, it)]]

\* a Map that maps the memory again on every call
MapAlways(allocation) ==
    LET mapped == [allocation EXCEPT
                      !.memory_mapped_span =
                          [map |-> allocation.maps + 1, offset |-> 0,
                           size |-> allocation.allocation_size],
                      !.maps = @ + 1]
    IN [allocation |-> mapped, span |-> mapped.memory_mapped_span]

\* MemoryAllocation::Map: the allocation afterwards and the returned view
Map(allocation) ==
    LET mapped == IF empty(allocation.memory_mapped_span)
                  THEN [allocation EXCEPT
                           !.memory_mapped_span =
                               [map |-> allocation.maps + 1, offset |-> 0,
                                size |-> allocation.allocation_size],
                           !.maps = @ + 1]
                  ELSE allocation
    IN [allocation |-> mapped, span |-> mapped.memory_mapped_span]

\* ASSERT_MSG(condition, ...): a failed assertion ends the process
ASSERT_MSG(condition, state) == IF condition THEN state ELSE "assert"

(***************************************************************************)
(* MemoryAllocator.                                                        *)
(***************************************************************************)
memoryTypeCount == Cardinality(DOMAIN properties)

RECURSIVE FindTypeLoop(_, _, _)
FindTypeLoop(flags, type_mask, type_index) ==
    IF type_index < memoryTypeCount
    THEN IF type_index \in type_mask
            /\ (properties[type_index] \cap flags) # {}
         THEN type_index
         ELSE FindTypeLoop(flags, type_mask, type_index + 1)
    ELSE nullopt

FindType(flags, type_mask) == FindTypeLoop(flags, type_mask, 0)

\* MemoryPropertyFlags(type_mask, flags): unreachable is the
\* UNREACHABLE_MSG("No compatible memory types found") branch
RECURSIVE MemoryPropertyFlags(_, _)
MemoryPropertyFlags(type_mask, flags) ==
    IF FindType(flags, type_mask) # nullopt
    THEN [unreachable |-> FALSE, flags |-> flags]
    ELSE IF HOST_CACHED \in flags
    THEN MemoryPropertyFlags(type_mask, flags \ {HOST_CACHED})
    ELSE IF DEVICE_LOCAL \in flags
    THEN MemoryPropertyFlags(type_mask, flags \ {DEVICE_LOCAL})
    ELSE [unreachable |-> TRUE, flags |-> {}]

\* TryCommit: index of the first compatible allocation whose Commit
\* succeeds (0 for std::nullopt), the offset and the allocations afterwards
RECURSIVE TryCommitLoop(_, _, _, _, _, _)
TryCommitLoop(allocs, size, alignment, type_mask, flags, i) ==
    IF i > Len(allocs)
    THEN [index |-> 0, alloc |-> nullopt, allocations |-> allocs]
    ELSE IF ~IsCompatible(allocs[i], flags, type_mask)
    THEN TryCommitLoop(allocs, size, alignment, type_mask, flags, i + 1)
    ELSE LET commit == MemoryAllocation_Commit(allocs[i], size, alignment)
         IN IF commit.alloc # nullopt
            THEN [index |-> i, alloc |-> commit.alloc,
                  allocations |-> [allocs EXCEPT ![i] = commit.allocation]]
            ELSE TryCommitLoop(allocs, size, alignment, type_mask, flags, i + 1)

TryCommit(allocs, size, alignment, type_mask, flags) ==
    TryCommitLoop(allocs, size, alignment, type_mask, flags, 1)

\* the new allocation put in front of the list
AllocMemoryFront(allocs, flags, type_mask, size) ==
    << MemoryAllocation(flags, size, FindType(flags, type_mask)) >> \o allocs

\* AllocMemory: FindType(...).value() is present whenever the resolved
\* flags came from MemoryPropertyFlags without the unreachable branch
AllocMemory(allocs, flags, type_mask, size) ==
    Append(allocs, MemoryAllocation(flags, size, FindType(flags, type_mask)))

(***************************************************************************)
(* MemoryCommit objects.  handles is the sequence of the objects the       *)
(* caller holds, in the order it obtained them; an object with             *)
(* allocation = 0 has a null back-reference.  alignment, usage and         *)
(* type_mask remember the request the commit was obtained with; released   *)
(* tells that a Release of the object has called Free for its interval.    *)
(***************************************************************************)
Handles == DOMAIN handles

NoCommit ==
    [alive |-> FALSE, allocation |-> 0, begin |-> 0, end |-> 0,
     alignment |-> 1, usage |-> DeviceLocal, type_mask |-> {},
     span |-> EmptySpan, released |-> FALSE]

MemoryCommit(allocation, begin, end, alignment, usage, type_mask) ==
    [alive |-> TRUE, allocation |-> allocation, begin |-> begin, end |-> end,
     alignment |-> alignment, usage |-> usage, type_mask |-> type_mask,
     span |-> EmptySpan, released |-> FALSE]

\* last.op is "none", "commit", "release", "construct", "assign", "map" or
\* "fatal"; last.commit is the MemoryCommit returned, released, constructed
\* or mapped (for a fatal Commit, the request; for an assignment, the target
\* as it was before);
\* grew: the Commit appended a block; reuse: the Commit directly followed
\* the release of a commit of at least its size with the same alignment,
\* usage and type mask; blocks: the number of blocks before the operation
NoOp == [op |-> "none", commit |-> NoCommit, grew |-> FALSE, reuse |-> FALSE,
         blocks |-> 0]

NoChunk == [required_size |-> << >>, chunk_size |-> << >>]

(***************************************************************************)
(* Inputs.                                                                 *)
(***************************************************************************)
TableA == (0 :> {DEVICE_LOCAL}) @@ (1 :> {HOST_VISIBLE, HOST_COHERENT})

TableB == (0 :> {DEVICE_LOCAL}) @@ (1 :> {HOST_VISIBLE, HOST_COHERENT})
          @@ (2 :> {HOST_VISIBLE, HOST_COHERENT, HOST_CACHED})

TableC == (0 :> {HOST_VISIBLE}) @@ (1 :> {HOST_VISIBLE, HOST_COHERENT})

DeviceTables == {TableA, TableB, TableC}

Sizes == {65536, 4096 * KiB + 1}

Alignments == {256}

\* <<compatible type mask, usage>> of the requests
Requests == {<<{0, 1}, Upload>>, <<{0, 1}, Download>>,
             <<{0, 1}, DeviceLocal>>, <<{0, 2}, Download>>}

BlockSizes == {65536, 2048 * KiB}

BlockAlignments == {256, 1024 * KiB}

BlockRequests == {<<{0, 1}, Upload>>}

HandleSizes == {65536, 4096 * KiB}

HandleRequests == {<<{0, 1}, Upload>>}

FitRequests == {<<{0, 1}, Upload>>, <<{1, 2}, Download>>}

ChunkInputs ==
    {1}
    \cup {sizes[i] + d : i \in 1..Len(sizes), d \in {-1, 0, 1}}
    \cup {sizes[Len(sizes)] + k * ChunkAlignment + d :
              k \in 1..MaxOver, d \in {-1, 0, 1}}

(***************************************************************************)
(* Initial state: the allocator right after construction.                  *)
(***************************************************************************)
Init ==
    /\ properties \in DeviceTables
    /\ allocations = << >>
    /\ handles = << >>
    /\ last = NoOp
    /\ fatal = "none"
    /\ chunk = NoChunk

(***************************************************************************)
(* MemoryAllocator::Commit(requirements, usage); the caller keeps the      *)
(* returned MemoryCommit.                                                  *)
(***************************************************************************)
MemoryAllocator_Commit(size, alignment, type_mask, usage) ==
    LET resolved == MemoryPropertyFlags(type_mask,
                                        MemoryUsagePropertyFlags(usage))
        flags == resolved.flags
        first == TryCommit(allocations, size, alignment, type_mask, flags)
        grown == AllocMemory(allocations, flags, type_mask,
                             AllocationChunkSize(size))
        second == TryCommit(grown, size, alignment, type_mask, flags)
        commit == IF first.index # 0 THEN first ELSE second
        reuse == /\ last.op = "release"
                 /\ size <= last.commit.end - last.commit.begin
                 /\ alignment = last.commit.alignment
                 /\ usage = last.commit.usage
                 /\ type_mask = last.commit.type_mask
        request == MemoryCommit(0, 0, size, alignment, usage, type_mask)
    IN /\ fatal = "none"
       /\ IF resolved.unreachable
          THEN /\ fatal' = "unreachable"
               /\ last' = [op |-> "fatal", commit |-> request,
                           grew |-> FALSE, reuse |-> reuse,
                           blocks |-> Len(allocations)]
               /\ UNCHANGED <<allocations, handles>>
          ELSE /\ first.index = 0 => Len(allocations) < MaxBlocks
               /\ IF commit.index = 0
                  THEN /\ fatal' = "value"
                       /\ allocations' = grown
                       /\ last' = [op |-> "fatal", commit |-> request,
                                   grew |-> TRUE, reuse |-> reuse,
                                   blocks |-> Len(allocations)]
                       /\ UNCHANGED handles
                  ELSE LET made == MemoryCommit(commit.index, commit.alloc,
                                                commit.alloc + size,
                                                alignment, usage, type_mask)
                       IN /\ fatal' = "none"
                          /\ allocations' = commit.allocations
                          /\ handles' = Append(handles, made)
                          /\ last' = [op |-> "commit", commit |-> made,
                                      grew |-> (first.index = 0),
                                      reuse |-> reuse,
                                      blocks |-> Len(allocations)]
       /\ UNCHANGED <<properties, chunk>>

(***************************************************************************)
(* MemoryCommit::~MemoryCommit of the caller's object h: Release() calls   *)
(* allocation->Free(interval.first) when the back-reference is not null.   *)
(***************************************************************************)
MemoryCommit_Destructor(h) ==
    LET c == handles[h]
        freed == Free(allocations[c.allocation], c.begin)
        op == [op |-> "release", commit |-> c, grew |-> FALSE,
               reuse |-> FALSE, blocks |-> Len(allocations)]
    IN /\ fatal = "none"
       /\ handles' = erase(handles, h)
       /\ IF c.allocation = 0
          THEN /\ UNCHANGED <<allocations, fatal>>
               /\ last' = op
          ELSE IF freed.ok
          THEN /\ allocations' = [allocations EXCEPT ![c.allocation] =
                                      freed.allocation]
               /\ last' = op
               /\ UNCHANGED fatal
          ELSE /\ fatal' = ASSERT_MSG(freed.ok, fatal)
               /\ last' = [op EXCEPT !.op = "fatal"]
               /\ UNCHANGED allocations
       /\ UNCHANGED <<properties, chunk>>

(***************************************************************************)
(* MemoryCommit::MemoryCommit(MemoryCommit&& rhs): a new object of the     *)
(* caller takes the back-reference, interval and span of its object h,     *)
(* which is left with a null back-reference and an empty span.             *)
(***************************************************************************)
MemoryCommit_MoveConstruct(h) ==
    LET rhs == handles[h]
    IN /\ fatal = "none"
       /\ handles' = Append([handles EXCEPT ![h].allocation = 0,
                                             ![h].span = EmptySpan,
                                             ![h].released = FALSE],
                            rhs)
       /\ last' = [op |-> "construct", commit |-> rhs, grew |-> FALSE,
                   reuse |-> FALSE, blocks |-> Len(allocations)]
       /\ UNCHANGED <<properties, allocations, fatal, chunk>>

(***************************************************************************)
(* MemoryCommit::operator=(MemoryCommit&& rhs) on the caller's objects:    *)
(* handles[t] = std::move(handles[h]).  Release() runs on the target       *)
(* first; std::exchange then reads rhs.allocation and rhs.span, nulls      *)
(* them, and stores what it read in the target, so that with t = h the     *)
(* object keeps its back-reference and span.                               *)
(***************************************************************************)
MemoryCommit_MoveAssign(t, h) ==
    LET c == handles[t]
        rhs == handles[h]
        freed == Free(allocations[c.allocation], c.begin)
        op == [op |-> "assign", commit |-> c, grew |-> FALSE,
               reuse |-> FALSE, blocks |-> Len(allocations)]
        moved == [handles EXCEPT ![h].allocation = 0,
                                 ![h].span = EmptySpan,
                                 ![h].released = FALSE]
        assigned == IF t = h
                    THEN [handles EXCEPT
                             ![t].released = (c.allocation # 0)]
                    ELSE [moved EXCEPT ![t] = rhs]
    IN /\ fatal = "none"
       /\ IF c.allocation = 0
          THEN /\ handles' = assigned
               /\ last' = op
               /\ UNCHANGED <<allocations, fatal>>
          ELSE IF freed.ok
          THEN /\ allocations' = [allocations EXCEPT ![c.allocation] =
                                      freed.allocation]
               /\ handles' = assigned
               /\ last' = op
               /\ UNCHANGED fatal
          ELSE /\ fatal' = ASSERT_MSG(freed.ok, fatal)
               /\ last' = [op EXCEPT !.op = "fatal"]
               /\ UNCHANGED <<allocations, handles>>
       /\ UNCHANGED <<properties, chunk>>

(***************************************************************************)
(* MemoryCommit::Map() on the caller's object h, whose back-reference is   *)
(* not null.                                                               *)
(***************************************************************************)
MemoryCommit_Map(h) ==
    LET c == handles[h]
        mapped == Map(allocations[c.allocation])
        span == IF empty(c.span)
                THEN subspan(mapped.span, c.begin, c.end - c.begin)
                ELSE c.span
    IN /\ fatal = "none"
       /\ IF empty(c.span)
          THEN allocations' = [allocations EXCEPT ![c.allocation] =
                                  mapped.allocation]
          ELSE UNCHANGED allocations
       /\ handles' = [handles EXCEPT ![h].span = span]
       /\ last' = [op |-> "map", commit |-> [c EXCEPT !.span = span],
                   grew |-> FALSE, reuse |-> FALSE,
                   blocks |-> Len(allocations)]
       /\ UNCHANGED <<properties, fatal, chunk>>

NextWith(max_held, commit_sizes, commit_alignments, requests) ==
    \/ \E size \in commit_sizes, alignment \in commit_alignments,
          request \in requests :
           /\ Len(handles) < max_held
           /\ MemoryAllocator_Commit(size, alignment, request[1], request[2])
    \/ \E h \in Handles : MemoryCommit_Destructor(h)

Next == NextWith(MaxCommits, Sizes, Alignments, Requests)

Spec == Init /\ [][Next]_vars

(***************************************************************************)
(* One usage class on one device, so that every commit competes for the    *)
(* same blocks, with sizes and alignments that leave unaligned holes.      *)
(***************************************************************************)
InitBlock == Init /\ properties = TableA

NextBlock ==
    NextWith(MaxBlockCommits, BlockSizes, BlockAlignments, BlockRequests)

SpecBlock == InitBlock /\ [][NextBlock]_vars

(***************************************************************************)
(* The caller also moves the MemoryCommit objects it holds and maps them.  *)
(* handles holds at most MaxHandles objects, moved-from ones included.     *)
(***************************************************************************)
InitHandle == Init /\ properties = TableA

NextHandle ==
    \/ NextWith(MaxHandles, HandleSizes, Alignments, HandleRequests)
    \/ \E h \in Handles :
           /\ Len(handles) < MaxHandles
           /\ MemoryCommit_MoveConstruct(h)
    \/ \E t \in Handles, h \in Handles : MemoryCommit_MoveAssign(t, h)
    \/ \E h \in Handles :
           /\ handles[h].allocation # 0
           /\ MemoryCommit_Map(h)

SpecHandle == InitHandle /\ [][NextHandle]_vars

(***************************************************************************)
(* A device with a cached host type, and requests whose type masks select  *)
(* both the plain and the cached host type.                                *)
(***************************************************************************)
InitFit == Init /\ properties = TableB

NextFit == NextWith(MaxCommits, Sizes, Alignments, FitRequests)

SpecFit == InitFit /\ [][NextFit]_vars

(***************************************************************************)
(* AllocationChunkSize on its own: two required sizes are drawn and the    *)
(* function is applied to both.                                            *)
(***************************************************************************)
InitChunk ==
    /\ properties = TableA
    /\ allocations = << >>
    /\ handles = << >>
    /\ last = NoOp
    /\ fatal = "none"
    /\ chunk \in {[required_size |-> <<x, y>>, chunk_size |-> << >>] :
                     x \in ChunkInputs, y \in ChunkInputs}

ComputeChunkSize ==
    /\ chunk.chunk_size = << >>
    /\ chunk' = [chunk EXCEPT !.chunk_size =
                    << AllocationChunkSize(chunk.required_size[1]),
                       AllocationChunkSize(chunk.required_size[2]) >>]
    /\ UNCHANGED <<properties, allocations, handles, last, fatal>>

NextChunk == ComputeChunkSize

SpecChunk == InitChunk /\ [][NextChunk]_vars

(***************************************************************************)
(* Properties.                                                             *)
(***************************************************************************)
Overlap(r1, r2) == ~(r1.end <= r2.begin \/ r2.end <= r1.begin)

RECURSIVE SumLengths(_)
SumLengths(commits) ==
    IF commits = << >> THEN 0
    ELSE (Head(commits).end - Head(commits).begin) + SumLengths(Tail(commits))

\* the block the last commit was placed in
LastBlock == allocations[last.commit.allocation]

\* C1: no two ranges stored in one block overlap, after any sequence of
\* commits and releases.
C1_NonOverlap ==
    \A a \in DOMAIN allocations :
        \A i, j \in DOMAIN allocations[a].commits :
            i # j => ~Overlap(allocations[a].commits[i],
                              allocations[a].commits[j])

\* a commit was placed in the hole between two stored ranges
C1_Witness ==
    /\ last.op = "commit"
    /\ Len(LastBlock.commits) = 3
    /\ LastBlock.commits[2] = Range(last.commit.begin, last.commit.end)

\* C2: every range a block returns ends at or before the block's size, and
\* the lengths of the stored ranges of a block add up to at most its size.
C2_Capacity ==
    /\ \A a \in DOMAIN allocations :
          /\ \A i \in DOMAIN allocations[a].commits :
                allocations[a].commits[i].end <= allocations[a].allocation_size
          /\ SumLengths(allocations[a].commits) <= allocations[a].allocation_size
    /\ last.op = "commit" => last.commit.end <= LastBlock.allocation_size

\* a commit that filled its block to the last byte, after releases
C2_Witness ==
    /\ last.op = "commit"
    /\ last.commit.end = LastBlock.allocation_size
    /\ Len(LastBlock.commits) >= 2
    /\ SumLengths(LastBlock.commits) < LastBlock.allocation_size

\* C3: the begin of every commit is a multiple of the alignment it was
\* requested with, whatever the alignments of the ranges already stored.
C3_Alignment ==
    /\ \A h \in Handles :
          handles[h].allocation # 0 =>
              handles[h].begin % handles[h].alignment = 0
    /\ last.op = "commit" => last.commit.begin % last.commit.alignment = 0

\* a commit aligned to 1 MiB placed after a range that ends off that
\* alignment
C3_Witness ==
    /\ last.op = "commit"
    /\ last.commit.alignment = 1024 * KiB
    /\ \E i \in DOMAIN LastBlock.commits :
          /\ LastBlock.commits[i].end % (1024 * KiB) # 0
          /\ LastBlock.commits[i].end <= last.commit.begin
          /\ LastBlock.commits[i].end + 1024 * KiB > last.commit.begin

\* C4: a Commit that directly follows the release of a commit of at least
\* its size, with the same alignment, usage and type mask, succeeds and
\* appends no block.
C4_Reuse ==
    last.reuse =>
        /\ last.op = "commit"
        /\ ~last.grew
        /\ Len(allocations) = last.blocks

\* a smaller commit reused the hole of a released one, next to a live range
C4_Witness ==
    /\ last.reuse
    /\ last.op = "commit"
    /\ Len(LastBlock.commits) = 2
    /\ SumLengths(LastBlock.commits) < 4096 * KiB

\* C5: a Commit that finds no fitting compatible block appends exactly one
\* block of at least the requested size and the retried scan places the
\* commit in it; the .value() of the retry never fails; a Commit appends at
\* most one block.
C5_GrowthRetry ==
    /\ fatal # "value"
    /\ last.op = "commit" =>
          Len(allocations) = last.blocks + (IF last.grew THEN 1 ELSE 0)
    /\ (last.op = "commit" /\ last.grew) =>
          /\ last.commit.allocation = Len(allocations)
          /\ LastBlock.allocation_size >= last.commit.end - last.commit.begin
          /\ LastBlock.commits = << Range(last.commit.begin, last.commit.end) >>
          /\ last.commit.begin = 0

\* growth although a compatible block existed: it had no fitting region
C5_Witness ==
    /\ last.op = "commit"
    /\ last.grew
    /\ \E a \in 1..last.blocks :
          /\ IsCompatible(allocations[a], LastBlock.property_flags,
                          last.commit.type_mask)
          /\ allocations[a].commits # << >>

\* the flags Commit resolves for a request, as MemoryPropertyFlags(type_mask,
\* usage) computes them
Resolved(type_mask, usage) ==
    MemoryPropertyFlags(type_mask, MemoryUsagePropertyFlags(usage))

\* C6: on a device without a host-cached memory type, every Download commit
\* lies in a block whose memory type offers host-visible and host-coherent.
C6_FlagDegradation ==
    (\A t \in DOMAIN properties : HOST_CACHED \notin properties[t]) =>
        \A h \in Handles :
            (handles[h].allocation # 0 /\ handles[h].usage = Download) =>
                {HOST_VISIBLE, HOST_COHERENT} \subseteq
                    properties[allocations[handles[h].allocation].memory_type]

\* the first Commit of the end-to-end example: type 0 {device-local}, type 1
\* {host-visible, host-coherent}, no block, size 65536, alignment 256, type
\* mask 0b11, Upload
C7_Case ==
    /\ properties = TableA
    /\ last.op \in {"commit", "fatal"}
    /\ last.blocks = 0
    /\ last.commit.end - last.commit.begin = 65536
    /\ last.commit.alignment = 256
    /\ last.commit.type_mask = {0, 1}
    /\ last.commit.usage = Upload

\* C7 as stated: the example creates one block of 1,048,576 bytes at memory
\* type 1 with the flags {host-visible, host-coherent}.
C7_EndToEnd_Stated ==
    C7_Case =>
        /\ last.op = "commit"
        /\ Len(allocations) = 1
        /\ allocations[1].property_flags = {HOST_VISIBLE, HOST_COHERENT}
        /\ allocations[1].memory_type = 1
        /\ allocations[1].allocation_size = 1048576

\* C7 amended: the example creates one block of 4,194,304 bytes (the
\* smallest preset size) at memory type 1 with the flags {host-visible,
\* host-coherent}, and the commit is [0, 65536).
C7_EndToEnd ==
    C7_Case =>
        /\ last.op = "commit"
        /\ Len(allocations) = 1
        /\ allocations[1].property_flags = {HOST_VISIBLE, HOST_COHERENT}
        /\ allocations[1].memory_type = 1
        /\ allocations[1].allocation_size = 4194304
        /\ last.commit.allocation = 1
        /\ last.commit.begin = 0
        /\ last.commit.end = 65536

C7_Witness == C7_Case /\ last.op = "commit" /\ last.grew

\* the preset sizes as a set, and the largest of them
TableEntries == {sizes[i] : i \in DOMAIN sizes}

TableMax == CHOOSE e \in TableEntries : \A f \in TableEntries : f <= e

\* C8: AllocationChunkSize is monotonic, never below its argument, the
\* smallest preset size >= x up to the largest preset size, and x rounded up
\* to a multiple of 4 MiB above it.
C8_ChunkSizing ==
    chunk.chunk_size # << >> =>
        LET x == chunk.required_size[1]
            y == chunk.required_size[2]
            cx == chunk.chunk_size[1]
            cy == chunk.chunk_size[2]
        IN /\ cx >= x
           /\ x <= y => cx <= cy
           /\ x <= TableMax =>
                 /\ cx \in TableEntries
                 /\ \A e \in TableEntries : e >= x => cx <= e
           /\ x > TableMax =>
                 /\ cx % ChunkAlignment = 0
                 /\ cx - x < ChunkAlignment

\* one size above the largest preset and off the 4 MiB grid, one below it
\* and strictly between two presets
C8_Witness ==
    /\ chunk.chunk_size # << >>
    /\ chunk.required_size[1] > TableMax
    /\ chunk.required_size[1] % ChunkAlignment # 0
    /\ chunk.required_size[2] < TableMax
    /\ chunk.required_size[2] \notin TableEntries
    /\ chunk.chunk_size[2] > chunk.required_size[2]

\* C9: IsCompatible(flags, type_mask) holds exactly when every requested
\* flag is among the block's property flags and the block's type is in the
\* type mask, for every block and the flags and mask of every request.
C9_IsCompatible ==
    \A a \in DOMAIN allocations, r \in Requests :
        ~Resolved(r[1], r[2]).unreachable =>
            (IsCompatible(allocations[a], Resolved(r[1], r[2]).flags, r[1])
             <=> /\ Resolved(r[1], r[2]).flags \subseteq
                       allocations[a].property_flags
                 /\ allocations[a].memory_type \in r[1])

\* the lowest type index in the mask whose flags are a superset of the
\* requested flags, or nullopt
LowestSuperset(flags, type_mask) ==
    LET matching == {i \in DOMAIN properties :
                        i \in type_mask /\ flags \subseteq properties[i]}
    IN IF matching = {} THEN nullopt
       ELSE CHOOSE i \in matching : \A j \in matching : i <= j

\* C10: the FindType call that opens the flag resolution of a Commit returns
\* the lowest type index in the mask whose flags are a superset of the
\* requested flags, and nullopt exactly when there is none.
C10_FindTypeIndex ==
    last.op \in {"commit", "fatal"} =>
        FindType(MemoryUsagePropertyFlags(last.commit.usage),
                 last.commit.type_mask)
            = LowestSuperset(MemoryUsagePropertyFlags(last.commit.usage),
                             last.commit.type_mask)

\* C11: the flag resolution of a Commit ends in the fatal "no compatible
\* memory types" branch only when the type mask selects no memory type of
\* the device at all.
C11_ResolveFlags ==
    (last.op = "fatal" /\ fatal = "unreachable") =>
        last.commit.type_mask \cap DOMAIN properties = {}

\* C14 as stated: every chunk size is a multiple of the smallest preset size.
C14_Granularity_Stated ==
    chunk.chunk_size # << >> => chunk.chunk_size[1] % sizes[1] = 0

\* C14 amended: every chunk size is a multiple of 512 KiB, and a multiple of
\* the smallest preset size when the required size is above the largest
\* preset size.
C14_Granularity ==
    chunk.chunk_size # << >> =>
        /\ chunk.chunk_size[1] % (512 * KiB) = 0
        /\ chunk.required_size[1] > sizes[Len(sizes)] =>
              chunk.chunk_size[1] % sizes[1] = 0

\* a required size above the table and off the 4 MiB grid, and one that
\* selects a preset size that is no multiple of the smallest one
C14_Witness ==
    /\ chunk.chunk_size # << >>
    /\ chunk.required_size[1] > sizes[Len(sizes)]
    /\ chunk.required_size[1] % sizes[1] # 0
    /\ chunk.chunk_size[2] % sizes[1] # 0

\* compatibility as the specification defines it: every requested flag is
\* among the block's property flags and the block's type is in the mask
Compatible(allocation, flags, type_mask) ==
    /\ flags \subseteq allocation.property_flags
    /\ allocation.memory_type \in type_mask

\* C16: a commit returned without growth lies in the first block, in
\* insertion order, that is compatible with the resolved flags and the type
\* mask and has a fitting free region.
C16_FirstFit ==
    (last.op = "commit" /\ ~last.grew) =>
        LET flags == Resolved(last.commit.type_mask, last.commit.usage).flags
            size == last.commit.end - last.commit.begin
        IN /\ Compatible(LastBlock, flags, last.commit.type_mask)
           /\ \A a \in 1..(last.commit.allocation - 1) :
                 ~(/\ Compatible(allocations[a], flags, last.commit.type_mask)
                   /\ FindFreeRegion(allocations[a], size,
                                     last.commit.alignment) # nullopt)

\* C17: blocks are never removed, reordered or resized, and a block is
\* appended only by a Commit for which no existing block was compatible
\* with a fitting free region.
C17_AppendOnly ==
    [][/\ Len(allocations') >= Len(allocations)
       /\ \A a \in DOMAIN allocations :
             /\ allocations'[a].allocation_size = allocations[a].allocation_size
             /\ allocations'[a].property_flags = allocations[a].property_flags
             /\ allocations'[a].memory_type = allocations[a].memory_type
       /\ Len(allocations') > Len(allocations) =>
             /\ Len(allocations') = Len(allocations) + 1
             /\ last'.op \in {"commit", "fatal"}
             /\ last'.grew
             /\ \A a \in DOMAIN allocations :
                   ~(/\ IsCompatible(allocations[a],
                            allocations'[Len(allocations')].property_flags,
                            last'.commit.type_mask)
                     /\ FindFreeRegion(allocations[a],
                            last'.commit.end - last'.commit.begin,
                            last'.commit.alignment) # nullopt)]_vars

\* every commit of two blocks was released and both blocks are still there
C17_Witness ==
    /\ last.op = "release"
    /\ Len(allocations) = 2
    /\ \A a \in DOMAIN allocations : allocations[a].commits = << >>

\* the ranges of a block without the one that starts at begin
Without(commits, begin) == SelectSeq(commits, LAMBDA r : r.begin # begin)

\* x is an aligned offset at which size bytes fit into the block clear of
\* the ranges
Feasible(commits, allocation_size, x, size, alignment) ==
    /\ x % alignment = 0
    /\ x + size <= allocation_size
    /\ \A i \in DOMAIN commits : ~Overlap(Range(x, x + size), commits[i])

\* the aligned offsets of a block that are multiples of 64 KiB; every
\* range of SpecBlock begins and ends on a multiple of 64 KiB, so the lowest
\* feasible offset of a block is among them
Grid(allocation_size, alignment) ==
    LET step == IF alignment > 64 * KiB THEN alignment ELSE 64 * KiB
    IN {k * step : k \in 0..(allocation_size \div step)}

\* C18: a block's Commit returns the lowest aligned offset at which the
\* size fits clear of the stored ranges, and returns empty only when there
\* is no such offset.
C18_LowestOffset ==
    last.op = "commit" =>
        LET size == last.commit.end - last.commit.begin
            alignment == last.commit.alignment
            before == Without(LastBlock.commits, last.commit.begin)
        IN /\ Feasible(before, LastBlock.allocation_size, last.commit.begin,
                       size, alignment)
           /\ \A x \in Grid(LastBlock.allocation_size, alignment) :
                 x < last.commit.begin =>
                     ~Feasible(before, LastBlock.allocation_size, x, size,
                               alignment)
           /\ \A a \in 1..(last.commit.allocation - 1) :
                 IsCompatible(allocations[a], LastBlock.property_flags,
                              last.commit.type_mask) =>
                     \A x \in Grid(allocations[a].allocation_size, alignment) :
                         ~Feasible(allocations[a].commits,
                                   allocations[a].allocation_size, x, size,
                                   alignment)

\* the example: after two commits of 65536 bytes at alignment 256 and the
\* release of the first, the next commit of 65536 bytes gets offset 0 again
C18_Witness ==
    /\ last.op = "commit"
    /\ last.commit.begin = 0
    /\ last.commit.end = 65536
    /\ last.commit.alignment = 256
    /\ LastBlock.commits = << Range(0, 65536), Range(65536, 131072) >>

Sorted(commits) ==
    \A i \in 1..(Len(commits) - 1) : commits[i].begin < commits[i + 1].begin

\* C19: after every commit and release the ranges of every block are in
\* strictly ascending order of begin, and a commit leaves the blocks it was
\* not placed in unchanged.
C19_Sorted ==
    [][/\ \A a \in DOMAIN allocations' : Sorted(allocations'[a].commits)
       /\ last'.op = "commit" =>
             \A a \in DOMAIN allocations :
                 a # last'.commit.allocation =>
                     allocations'[a] = allocations[a]]_vars

\* a commit inserted in front of a stored range of the second block after
\* the first block returned empty
C19_Witness ==
    /\ last.op = "commit"
    /\ ~last.grew
    /\ last.commit.allocation = 2
    /\ allocations[1].commits # << >>
    /\ Len(LastBlock.commits) >= 2
    /\ LastBlock.commits[1] = Range(last.commit.begin, last.commit.end)

\* the objects whose back-reference points to block a
Owners(a) == {h \in Handles : handles[h].allocation = a}

\* C12: the ranges stored in each block are exactly the intervals of the
\* objects whose back-reference points to the block, one range per object,
\* and the destruction of an object with a null back-reference leaves every
\* block unchanged.
C12_Correspondence ==
    [][/\ \A a \in DOMAIN allocations' :
             LET owners == {h \in DOMAIN handles' : handles'[h].allocation = a}
                 commits == allocations'[a].commits
             IN /\ Len(commits) = Cardinality(owners)
                /\ \A h \in owners :
                      \E i \in DOMAIN commits :
                          commits[i] = Range(handles'[h].begin, handles'[h].end)
                /\ \A h1 \in owners, h2 \in owners :
                      h1 # h2 => handles'[h1].begin # handles'[h2].begin
       /\ (last'.op = "release" /\ last'.commit.allocation = 0) =>
             allocations' = allocations]_vars

\* C13: a release or an assignment whose object has a back-reference removes
\* exactly the range that begins at the object's begin from the object's
\* block and changes nothing else of the blocks; when the block stores no
\* range with that begin the step ends in the fatal state and removes nothing.
C13_Free ==
    [][LET c == last'.commit
           a == c.allocation
       IN /\ (last'.op \in {"release", "assign"} /\ a # 0) =>
                /\ fatal' = "none"
                /\ \E i \in DOMAIN allocations[a].commits :
                      allocations[a].commits[i].begin = c.begin
                /\ allocations'[a].commits =
                       Without(allocations[a].commits, c.begin)
                /\ Len(allocations'[a].commits) =
                       Len(allocations[a].commits) - 1
                /\ allocations' =
                       [allocations EXCEPT
                           ![a].commits = allocations'[a].commits]
          /\ (fatal = "none" /\ fatal' = "assert") =>
                /\ a # 0
                /\ \A i \in DOMAIN allocations[a].commits :
                      allocations[a].commits[i].begin # c.begin
                /\ allocations' = allocations]_vars

\* a destructor freed the second range of a block and the first is still
\* stored
C13_Witness ==
    /\ last.op = "release"
    /\ last.commit.allocation # 0
    /\ last.commit.begin > 0
    /\ allocations[last.commit.allocation].commits =
           << Range(0, last.commit.begin) >>

\* C15: an object whose release has run has a null back-reference, and no
\* release calls Free for an object whose release has already run.
C15_DoubleRelease ==
    /\ \A h \in Handles : handles[h].released => handles[h].allocation = 0
    /\ last.op \in {"release", "assign", "fatal"} =>
           ~(last.commit.released /\ last.commit.allocation # 0)

\* C20: the memory of a block is mapped at most once and as a whole, and
\* the view of every mapped commit is the part [begin, end) of that one
\* mapping of its block.
C20_MapOnce ==
    /\ \A a \in DOMAIN allocations :
          /\ allocations[a].maps <= 1
          /\ empty(allocations[a].memory_mapped_span) =>
                 allocations[a].maps = 0
          /\ ~empty(allocations[a].memory_mapped_span) =>
                 allocations[a].memory_mapped_span =
                     [map |-> 1, offset |-> 0,
                      size |-> allocations[a].allocation_size]
    /\ \A h \in Handles :
          ~empty(handles[h].span) =>
              /\ handles[h].allocation # 0
              /\ handles[h].span =
                     [map |-> 1, offset |-> handles[h].begin,
                      size |-> handles[h].end - handles[h].begin]
              /\ allocations[handles[h].allocation].maps = 1
    /\ last.op = "map" => ~empty(last.commit.span)

\* a commit made after the first Map of its block is mapped, and another
\* object holds a view of the same block
C20_Witness ==
    /\ last.op = "map"
    /\ last.commit.begin > 0
    /\ \E h \in Handles :
          /\ handles[h].allocation = last.commit.allocation
          /\ handles[h].begin = 0
          /\ ~empty(handles[h].span)
    /\ allocations[last.commit.allocation].maps = 1

====
